---- MODULE Spec2Model ----
(***************************************************************************)
(* Model of tutorpicasso/commands/enable_private_packages.py: the          *)
(* enable-private-packages command.  A run discovers the PICASSO_*_DPKG    *)
(* entries of the Tutor configuration, and for each one validates it,      *)
(* removes the stale checkout, clones the repository and registers the     *)
(* checkout (private.txt before Quince, "tutor mounts add" from Quince on). *)
(*                                                                         *)
(* Strings whose characters matter (configuration keys) are sequences of   *)
(* one-character strings; paths and command lines are sequences of string  *)
(* pieces.  The file system under <root>/env/build/openedx/requirements,   *)
(* the remote repositories and Tutor's mount list are the environment the  *)
(* command acts on.  rm, git clone, tutor mounts add, makedirs and open may *)
(* each succeed or fail; the shell append to private.txt fails when the    *)
(* file cannot be appended to.                                             *)
(***************************************************************************)
EXTENDS Integers, Sequences, FiniteSets, TLC

\* ------------------------------------------------------------------ bounds
MaxSettings == 3      \* entries in the configuration mapping of a behaviour
MaxRuns == 2          \* invocations of the command in a behaviour
MaxRev == 1           \* pushes to the remote repositories in a behaviour
MaxDiscoverySettings == 2   \* entries of a mapping given to discovery alone

\* ------------------------------------------------------------------ strings
PICASSO_ == <<"P", "I", "C", "A", "S", "S", "O", "_">>
_DPKG == <<"_", "D", "P", "K", "G">>

\* str.startswith
startswith(key, prefix) ==
    Len(key) >= Len(prefix) /\ SubSeq(key, 1, Len(prefix)) = prefix

\* str.endswith
endswith(key, suffix) ==
    Len(key) >= Len(suffix) /\ SubSeq(key, Len(key) - Len(suffix) + 1, Len(key)) = suffix

\* ------------------------------------------------------------------ values
\* A configuration value: None, a string of `size` characters, or a mapping
\* with the fields DOMAIN fields.
NoFields == [f \in {} |-> ""]
None == [kind |-> "none", size |-> 0, fields |-> NoFields]
Str(n) == [kind |-> "str", size |-> n, fields |-> NoFields]
Map(f) == [kind |-> "map", size |-> Cardinality(DOMAIN f), fields |-> f]

\* Python truth value of a configuration value (`and val`).
Truthy(val) == val.kind # "none" /\ val.size > 0

\* The key test of the comprehension's condition.
IsPicassoKey(key) == startswith(key, PICASSO_) /\ endswith(key, _DPKG)

\* Mutant: the truth value of the entry's value is not tested.
RECURSIVE get_picasso_packages_no_val(_)
get_picasso_packages_no_val(settings_) ==
    IF settings_ = << >> THEN << >>
    ELSE IF IsPicassoKey(Head(settings_).key)
         THEN <<Head(settings_)>> \o get_picasso_packages_no_val(Tail(settings_))
         ELSE get_picasso_packages_no_val(Tail(settings_))

\* The dict comprehension: it keeps the insertion order of the mapping.
RECURSIVE get_picasso_packages(_)
get_picasso_packages(settings_) ==
    IF settings_ = << >> THEN << >>
    ELSE IF IsPicassoKey(Head(settings_).key) /\ Truthy(Head(settings_).val)
         THEN <<Head(settings_)>> \o get_picasso_packages(Tail(settings_))
         ELSE get_picasso_packages(Tail(settings_))

\* ------------------------------------------------------------------ inputs
KeyA == PICASSO_ \o <<"A">> \o _DPKG
KeyB == PICASSO_ \o <<"B">> \o _DPKG
KeyC == PICASSO_ \o <<"C">> \o _DPKG
KeyOverlap == <<"P", "I", "C", "A", "S", "S", "O", "_", "D", "P", "K", "G">>
KeyOther == <<"O", "T", "H", "E", "R">>

Names == {"a", "b"}

Info(name, repo, version) == Map([f \in {"name", "repo", "version"} |->
    CASE f = "name" -> name [] f = "repo" -> repo [] OTHER -> version])
InfoNoVersion(name, repo) == Map([f \in {"name", "repo"} |->
    IF f = "name" THEN name ELSE repo])

Entry(key, val) == [key |-> key, val |-> val]

\* The configuration entries a behaviour draws its mapping from: two plain
\* descriptors, one that reuses the name "a" (under the key PICASSO_DPKG), one
\* without "version", and one under a key that is no PICASSO_*_DPKG key.
EntryPool == {
    Entry(KeyA, Info("a", "https://x/a.git", "main")),
    Entry(KeyB, Info("b", "https://x/b.git", "v1")),
    Entry(KeyOverlap, Info("a", "https://x/b.git", "v1")),
    Entry(KeyC, InfoNoVersion("b", "https://x/b.git")),
    Entry(KeyOther, Info("b", "https://x/b.git", "v1")) }

\* Mappings: sequences of entries with pairwise distinct keys, in insertion order.
RECURSIVE SeqsUpTo(_, _)
SeqsUpTo(S, n) ==
    IF n = 0 THEN {<< >>}
    ELSE LET shorter == SeqsUpTo(S, n - 1)
         IN  shorter \cup {Append(q, e) : q \in shorter, e \in S}

DistinctKeys(q) == \A m, n \in DOMAIN q : m # n => q[m].key # q[n].key

Mappings(S, n) == {q \in SeqsUpTo(S, n) : DistinctKeys(q)}

\* Host-tool releases, as the release tuple packaging.version.Version parses.
TutorVersions == {<<16, 1, 8>>, <<17, 0, 0>>, <<18, 1, 3>>}

\* Version("v17.0.0")
quince_version_obj == <<17, 0, 0>>

\* Version.__lt__ on release tuples: lexicographic order.
VersionLess(v, w) ==
    \/ v[1] < w[1]
    \/ v[1] = w[1] /\ v[2] < w[2]
    \/ v[1] = w[1] /\ v[2] = w[2] /\ v[3] < w[3]

\* ------------------------------------------------------------------ paths
tutor_root == "<root>"
private_requirements_path == <<tutor_root, "/env/build/openedx/requirements">>
requirement_path(info) == private_requirements_path \o <<"/", info.fields["name"]>>
private_txt_path == private_requirements_path \o <<"/private.txt">>
ManifestLine(info) == <<"-e ./", info.fields["name"], "/">>

\* ------------------------------------------------------------------ file system
NoTree == [repo |-> "", version |-> "", rev |-> 0]
Absent == [kind |-> "absent", tree |-> NoTree]
RegularFile == [kind |-> "file", tree |-> NoTree]
StaleDir == [kind |-> "dir", tree |-> [repo |-> "", version |-> "stale", rev |-> 0]]
PartialDir == [kind |-> "dir", tree |-> [repo |-> "", version |-> "partial", rev |-> 0]]
Checkout(info, rev) ==
    [kind |-> "dir",
     tree |-> [repo |-> info.fields["repo"], version |-> info.fields["version"], rev |-> rev]]

\* os.path.isdir / os.path.exists on a node
isdir_never(node) == FALSE
isdir(node) == node.kind = "dir"
exists(node) == node.kind # "absent"

\* ------------------------------------------------------------------ state
VARIABLES
    settings,        \* tutor_conf: the configuration mapping, in insertion order
    tutor_version,   \* tutor.__about__.__version__
    remote_rev,      \* revision the remotes serve for the requested refs
    root,            \* kind of <root>/env/build/openedx/requirements
    dirs,            \* node at <requirements>/<name>, per name
    private_txt,     \* <requirements>/private.txt: exists, lines, and whether the
                     \* shell can append to it (permissions, quota)
    mounts,          \* paths registered with "tutor mounts add"
    pc,              \* position of the command: idle, validate, rm, clone, register, done, aborted
    packages,        \* result of get_picasso_packages in the current run
    i,               \* index in packages of the descriptor of the current iteration
    error,           \* why the run aborted: none, config, command, fs
    runs,            \* invocations started
    trace,           \* steps executed in the current run, in order
    run_start,       \* dirs, private_txt and mounts when the current run started
    done_snap,       \* per descriptor completed in the current run: the state it left
    hist             \* end states of the last successive successful runs over an unchanged remote

vars == <<settings, tutor_version, remote_rev, root, dirs, private_txt, mounts, pc,
          packages, i, error, runs, trace, run_start, done_snap, hist>>

input == <<settings, tutor_version>>

NoDirs == [n \in Names |-> Absent]
NoHist == [count |-> 0, last |-> NoDirs, prev |-> NoDirs, clones |-> 0, prev_clones |-> 0]
Snapshot == [dirs |-> dirs, txt |-> private_txt, mounts |-> mounts]

Event(step, pkg, ok, dest, argv) ==
    [step |-> step, pkg |-> pkg, ok |-> ok, dest |-> dest, argv |-> argv]

info == packages[i].val
name == info.fields["name"]

CloneCount(t) == Cardinality({k \in DOMAIN t : t[k].step = "clone"})

\* The run ends with an exception: click reports it and exits non-zero.
Abort(kind) ==
    /\ pc' = "aborted"
    /\ error' = kind
    /\ hist' = NoHist

Init ==
    /\ settings \in Mappings(EntryPool, MaxSettings)
    /\ tutor_version \in TutorVersions
    /\ remote_rev = 0
    /\ \/ root = "absent" /\ dirs = NoDirs
       \/ /\ root = "dir"
          /\ \E node \in {Absent, RegularFile, StaleDir} : dirs = [NoDirs EXCEPT !["a"] = node]
    /\ \E w \in BOOLEAN : private_txt = [exists |-> FALSE, writable |-> w, lines |-> << >>]
    /\ mounts = {}
    /\ pc = "idle"
    /\ packages = << >>
    /\ i = 0
    /\ error = "none"
    /\ runs = 0
    /\ trace = << >>
    /\ run_start = Snapshot
    /\ done_snap = << >>
    /\ hist = NoHist

\* ------------------------------------------------------------------ the command
\* Mutant: the requirements root is not created when it is missing.
Start_no_makedirs ==
    /\ pc \in {"idle", "done", "aborted"}
    /\ runs < MaxRuns
    /\ runs' = runs + 1
    /\ packages' = get_picasso_packages(settings)
    /\ i' = 1
    /\ run_start' = Snapshot
    /\ done_snap' = << >>
    /\ trace' = << >>
    /\ pc' = "validate"
    /\ error' = "none"
    /\ UNCHANGED <<input, remote_rev, root, dirs, private_txt, mounts, hist>>

\* enable_private_packages up to the loop: load the configuration, discover
\* the packages, create the requirements root if it does not exist.
Start ==
    /\ pc \in {"idle", "done", "aborted"}
    /\ runs < MaxRuns
    /\ runs' = runs + 1
    /\ packages' = get_picasso_packages(settings)
    /\ i' = 1
    /\ run_start' = Snapshot
    /\ done_snap' = << >>
    /\ IF root = "absent"
       THEN \/ /\ root' = "dir"
               /\ trace' = <<Event("makedirs", 0, TRUE, "absent", <<private_requirements_path>>)>>
               /\ pc' = "validate"
               /\ error' = "none"
               /\ hist' = hist
            \/ /\ root' = root
               /\ trace' = <<Event("makedirs", 0, FALSE, "absent", <<private_requirements_path>>)>>
               /\ Abort("fs")
       ELSE /\ root' = root
            /\ trace' = << >>
            /\ pc' = "validate"
            /\ error' = "none"
            /\ hist' = hist
    /\ UNCHANGED <<input, remote_rev, dirs, private_txt, mounts>>

\* The for loop is exhausted: the command returns and exits with 0.
Return ==
    /\ pc = "validate"
    /\ i > Len(packages)
    /\ pc' = "done"
    /\ hist' = [count |-> hist.count + 1, last |-> dirs, prev |-> hist.last,
                clones |-> CloneCount(trace), prev_clones |-> hist.clones]
    /\ UNCHANGED <<input, remote_rev, root, dirs, private_txt, mounts, packages, i,
                   error, runs, trace, run_start, done_snap>>

\* {"name", "repo", "version"}.issubset(info)
HasRequiredKeys(inf) == {"name", "repo", "version"} \subseteq DOMAIN inf.fields

\* Mutant: a descriptor without the required keys is skipped, not fatal.
Validate_skip ==
    /\ pc = "validate"
    /\ i <= Len(packages)
    /\ IF HasRequiredKeys(info)
       THEN /\ pc' = "rm"
            /\ trace' = Append(trace, Event("validate", i, TRUE, dirs[name].kind, << >>))
            /\ i' = i
       ELSE /\ pc' = "validate"
            /\ trace' = Append(trace, Event("validate", i, FALSE, "", << >>))
            /\ i' = i + 1
    /\ UNCHANGED <<input, remote_rev, root, dirs, private_txt, mounts, packages,
                   error, hist, runs, run_start, done_snap>>

\* The head of an iteration: the required keys, or ClickException.
Validate ==
    /\ pc = "validate"
    /\ i <= Len(packages)
    /\ IF HasRequiredKeys(info)
       THEN /\ pc' = "rm"
            /\ trace' = Append(trace, Event("validate", i, TRUE, dirs[name].kind, << >>))
            /\ UNCHANGED <<error, hist>>
       ELSE /\ trace' = Append(trace, Event("validate", i, FALSE, "", << >>))
            /\ Abort("config")
    /\ UNCHANGED <<input, remote_rev, root, dirs, private_txt, mounts, packages, i,
                   runs, run_start, done_snap>>

\* Mutant: an existing checkout is kept and not cloned again.
RemoveStale_keep ==
    /\ pc = "rm"
    /\ pc' = IF isdir(dirs[name]) THEN "register" ELSE "clone"
    /\ UNCHANGED <<input, remote_rev, root, dirs, private_txt, mounts, packages, i,
                   error, hist, runs, trace, run_start, done_snap>>

\* if os.path.isdir(requirement_path): execute("rm", "-rf", requirement_path)
RemoveStale ==
    /\ pc = "rm"
    /\ LET argv == << <<"rm">>, <<"-rf">>, requirement_path(info) >>
       IN  IF isdir(dirs[name])
           THEN \/ /\ dirs' = [dirs EXCEPT ![name] = Absent]
                   /\ trace' = Append(trace, Event("rm", i, TRUE, dirs[name].kind, argv))
                   /\ pc' = "clone"
                   /\ UNCHANGED <<error, hist>>
                \/ /\ dirs' = dirs
                   /\ trace' = Append(trace, Event("rm", i, FALSE, dirs[name].kind, argv))
                   /\ Abort("command")
           ELSE /\ pc' = "clone"
                /\ UNCHANGED <<dirs, trace, error, hist>>
    /\ UNCHANGED <<input, remote_rev, root, private_txt, mounts, packages, i,
                   runs, run_start, done_snap>>

\* Mutant: the clone takes the ref of the first descriptor.
Clone_first_ref ==
    /\ pc = "clone"
    /\ LET argv == << <<"git">>, <<"clone">>, <<"-b">>, <<packages[1].val.fields["version"]>>,
                      <<info.fields["repo"]>>, requirement_path(info) >>
       IN  \/ /\ ~exists(dirs[name])
              /\ dirs' = [dirs EXCEPT ![name] = Checkout(info, remote_rev)]
              /\ trace' = Append(trace, Event("clone", i, TRUE, dirs[name].kind, argv))
              /\ pc' = "register"
              /\ UNCHANGED <<error, hist>>
           \/ /\ dirs' = dirs
              /\ trace' = Append(trace, Event("clone", i, FALSE, dirs[name].kind, argv))
              /\ Abort("command")
    /\ UNCHANGED <<input, remote_rev, root, private_txt, mounts, packages, i,
                   runs, run_start, done_snap>>

\* Mutant: a failed clone removes the checkouts the run made so far.
Clone_rollback ==
    /\ pc = "clone"
    /\ LET argv == << <<"git">>, <<"clone">>, <<"-b">>, <<info.fields["version"]>>,
                      <<info.fields["repo"]>>, requirement_path(info) >>
       IN  \/ /\ ~exists(dirs[name])
              /\ dirs' = [dirs EXCEPT ![name] = Checkout(info, remote_rev)]
              /\ trace' = Append(trace, Event("clone", i, TRUE, dirs[name].kind, argv))
              /\ pc' = "register"
              /\ UNCHANGED <<error, hist>>
           \/ /\ dirs' = [n \in Names |->
                            IF \E k \in DOMAIN done_snap : packages[k].val.fields["name"] = n
                            THEN Absent ELSE dirs[n]]
              /\ trace' = Append(trace, Event("clone", i, FALSE, dirs[name].kind, argv))
              /\ Abort("command")
    /\ UNCHANGED <<input, remote_rev, root, private_txt, mounts, packages, i,
                   runs, run_start, done_snap>>

\* execute("git", "clone", "-b", info["version"], info["repo"], requirement_path).
\* git clones only into a destination that does not exist (or is an empty
\* directory); a failed clone leaves nothing new, or a partial checkout.
Clone ==
    /\ pc = "clone"
    /\ LET argv == << <<"git">>, <<"clone">>, <<"-b">>, <<info.fields["version"]>>,
                      <<info.fields["repo"]>>, requirement_path(info) >>
       IN  \/ /\ ~exists(dirs[name])
              /\ dirs' = [dirs EXCEPT ![name] = Checkout(info, remote_rev)]
              /\ trace' = Append(trace, Event("clone", i, TRUE, dirs[name].kind, argv))
              /\ pc' = "register"
              /\ UNCHANGED <<error, hist>>
           \/ /\ dirs' \in {dirs} \cup
                    (IF exists(dirs[name]) THEN {} ELSE {[dirs EXCEPT ![name] = PartialDir]})
              /\ trace' = Append(trace, Event("clone", i, FALSE, dirs[name].kind, argv))
              /\ Abort("command")
    /\ UNCHANGED <<input, remote_rev, root, private_txt, mounts, packages, i,
                   runs, run_start, done_snap>>

\* The iteration ran to its end: on to the next descriptor.
Completed ==
    /\ pc' = "validate"
    /\ i' = i + 1
    /\ done_snap' = Append(done_snap, [dirs |-> dirs, txt |-> private_txt', mounts |-> mounts'])
    /\ UNCHANGED <<error, hist>>

\* Create private.txt empty if it does not exist, then run the shell command
\* echo "-e ./<name>/" >> private.txt with subprocess.call, whose return
\* value is dropped.  The command fails when the file cannot be appended to.
_enable_private_requirements_before_quince ==
    LET echo_command == << <<"echo">>, ManifestLine(info), <<">>">>, private_txt_path >>
        open_argv == << private_txt_path, <<"w">> >>
    IN  /\ mounts' = mounts
        /\ \/ /\ ~private_txt.exists
              /\ private_txt' = private_txt
              /\ trace' = Append(trace, Event("open", i, FALSE, "", open_argv))
              /\ Abort("fs")
              /\ UNCHANGED <<i, done_snap>>
           \/ LET echo_ok == private_txt.writable
                  opened == IF private_txt.exists THEN trace
                            ELSE Append(trace, Event("open", i, TRUE, "", open_argv))
              IN  /\ private_txt' =
                       [exists |-> TRUE,
                        writable |-> private_txt.writable,
                        lines |-> IF echo_ok THEN Append(private_txt.lines, ManifestLine(info))
                                  ELSE private_txt.lines]
                  /\ trace' = Append(opened, Event("echo", i, echo_ok, "", echo_command))
                  /\ Completed

\* execute("tutor", "mounts", "add", <requirements>/<name>)
_enable_private_requirements_latest ==
    LET argv == << <<"tutor">>, <<"mounts">>, <<"add">>, requirement_path(info) >>
    IN  /\ private_txt' = private_txt
        /\ \/ /\ mounts' = mounts \cup {requirement_path(info)}
              /\ trace' = Append(trace, Event("mounts", i, TRUE, "", argv))
              /\ Completed
           \/ /\ mounts' = mounts
              /\ trace' = Append(trace, Event("mounts", i, FALSE, "", argv))
              /\ Abort("command")
              /\ UNCHANGED <<i, done_snap>>

\* Mutant: the threshold release itself takes the legacy path.
BeforeQuince_le(v) == VersionLess(v, quince_version_obj) \/ v = quince_version_obj

\* tutor_version_obj < quince_version_obj
BeforeQuince(v) == VersionLess(v, quince_version_obj)

handle_private_requirements_by_tutor_version ==
    /\ pc = "register"
    /\ IF BeforeQuince(tutor_version)
       THEN _enable_private_requirements_before_quince
       ELSE _enable_private_requirements_latest
    /\ UNCHANGED <<input, remote_rev, root, dirs, packages, runs, run_start>>

\* The environment: between two runs the remotes move on to a new revision.
\* The runs before it no longer count as runs over an unchanged remote.
RemotePush ==
    /\ pc = "done"
    /\ remote_rev < MaxRev
    /\ remote_rev' = remote_rev + 1
    /\ hist' = NoHist
    /\ UNCHANGED <<input, root, dirs, private_txt, mounts, pc, packages, i, error, runs,
                   trace, run_start, done_snap>>

Next ==
    \/ Start
    \/ Return
    \/ Validate
    \/ RemoveStale
    \/ Clone
    \/ handle_private_requirements_by_tutor_version
    \/ RemotePush

Spec == Init /\ [][Next]_vars

\* ------------------------------------------------------------------ discovery alone
\* Keys around the naming convention, and values of every truth value.
DiscoveryKeys == {
    KeyA,
    KeyOverlap,
    PICASSO_ \o _DPKG,
    PICASSO_ \o <<"A">>,
    <<"A">> \o _DPKG,
    <<"X">> \o KeyA,
    KeyA \o <<"X">>,
    <<"p", "i", "c", "a", "s", "s", "o", "_", "a", "_", "d", "p", "k", "g">>,
    KeyOther }

DiscoveryValues == {
    None, Str(0), Map(NoFields), Str(3),
    Info("a", "https://x/a.git", "main"), InfoNoVersion("b", "https://x/b.git") }

DiscoveryPool == {Entry(k, v) : k \in DiscoveryKeys, v \in DiscoveryValues}

InitDiscovery ==
    /\ settings \in Mappings(DiscoveryPool, MaxDiscoverySettings)
    /\ tutor_version = <<17, 0, 0>>
    /\ remote_rev = 0
    /\ root = "dir"
    /\ dirs = NoDirs
    /\ private_txt = [exists |-> FALSE, writable |-> TRUE, lines |-> << >>]
    /\ mounts = {}
    /\ pc = "idle"
    /\ packages = << >>
    /\ i = 0
    /\ error = "none"
    /\ runs = 0
    /\ trace = << >>
    /\ run_start = Snapshot
    /\ done_snap = << >>
    /\ hist = NoHist

\* packages = get_picasso_packages(tutor_conf), on its own
Discover ==
    /\ pc = "idle"
    /\ packages' = get_picasso_packages(settings)
    /\ pc' = "discovered"
    /\ UNCHANGED <<input, remote_rev, root, dirs, private_txt, mounts, i, error, runs,
                   trace, run_start, done_snap, hist>>

SpecDiscovery == InitDiscovery /\ [][Discover]_vars

\* ------------------------------------------------------------------ properties
Range(q) == {q[k] : k \in DOMAIN q}
Events(step) == {k \in DOMAIN trace : trace[k].step = step}
EventsOf(step, pkg) == {k \in Events(step) : trace[k].pkg = pkg}
IsPrefix(p, q) == Len(p) <= Len(q) /\ SubSeq(q, 1, Len(p)) = p

\* The key is PICASSO_ followed by any text followed by _DPKG.
MatchesPattern(key) ==
    /\ Len(key) >= Len(PICASSO_) + Len(_DPKG)
    /\ key = PICASSO_ \o SubSeq(key, Len(PICASSO_) + 1, Len(key) - Len(_DPKG)) \o _DPKG

NonEmpty(val) ==
    \/ val.kind = "str" /\ val.size >= 1
    \/ val.kind = "map" /\ DOMAIN val.fields # {}

\* The result holds exactly the entries of the mapping that Wanted selects.
ReturnsExactly(Wanted(_)) ==
    /\ \A e \in Range(settings) : e \in Range(packages) <=> Wanted(e)
    /\ Range(packages) \subseteq Range(settings)
    /\ Cardinality(Range(packages)) = Len(packages)

\* C1 as stated: get_picasso_packages returns exactly the entries whose key
\* matches the pattern PICASSO_*_DPKG and whose value is non-empty, values
\* unchanged.
C1_PatternOnly ==
    pc = "discovered" =>
        LET Wanted(e) == MatchesPattern(e.key) /\ NonEmpty(e.val)
        IN  ReturnsExactly(Wanted)

\* C1 amended: get_picasso_packages returns exactly the entries whose value is
\* non-empty and whose key matches PICASSO_*_DPKG or is PICASSO_DPKG itself,
\* where the prefix and the suffix share the underscore; values unchanged.
C1_PrefixAndSuffix ==
    pc = "discovered" =>
        LET Wanted(e) == (MatchesPattern(e.key) \/ e.key = KeyOverlap) /\ NonEmpty(e.val)
        IN  ReturnsExactly(Wanted)

C1_Witness ==
    /\ pc = "discovered"
    /\ \E e \in Range(packages) : e.key = KeyOverlap
    /\ \E e \in Range(settings) : MatchesPattern(e.key) /\ e \notin Range(packages)

MissingKey(val) == \E f \in {"name", "repo", "version"} : f \notin DOMAIN val.fields

\* C2: a discovered descriptor that misses name, repo or version makes the
\* run fail with a configuration error before any removal, clone or
\* registration for it, and no descriptor after it is processed at all.
C2_MissingKeyAborts ==
    \A k \in DOMAIN packages :
        MissingKey(packages[k].val) =>
            /\ \A e \in DOMAIN trace :
                   trace[e].pkg >= k =>
                       /\ trace[e].pkg = k
                       /\ trace[e].step = "validate"
                       /\ ~trace[e].ok
                       /\ e = Len(trace)
            /\ EventsOf("validate", k) # {} => pc = "aborted" /\ error = "config" /\ i = k
            /\ pc \in {"validate", "rm", "clone", "register"} => i <= k
            /\ pc # "done"

C2_Witness ==
    /\ pc = "aborted"
    /\ error = "config"
    /\ i = 2
    /\ Len(packages) = 3
    /\ Len(done_snap) = 1

\* Events of one descriptor before event e.
Before(step, e) == {k \in EventsOf(step, trace[e].pkg) : k < e}

C4_EveryFailureFatal ==
    \A e \in DOMAIN trace :
        ~trace[e].ok => e = Len(trace) /\ pc = "aborted" /\ error # "none"

ExpectedPath(k) ==
    <<"<root>", "/env/build/openedx/requirements", "/", packages[k].val.fields["name"]>>
ExpectedLine(k) == <<"-e ./", packages[k].val.fields["name"], "/">>
ExpectedTxtPath == <<"<root>", "/env/build/openedx/requirements", "/private.txt">>
PrevTxt(k) == IF k = 1 THEN run_start.txt ELSE done_snap[k - 1].txt
PrevMounts(k) == IF k = 1 THEN run_start.mounts ELSE done_snap[k - 1].mounts

\* C5: registration is chosen by the host-tool version.  Below 17.0.0 each
\* materialized descriptor runs exactly one append of the line -e ./<name>/
\* to private.txt, which adds exactly that line at the end (nothing when the
\* append itself fails), after creating the file empty if it was absent, and
\* issues no mount-add call; from 17.0.0 on it issues exactly one mount-add
\* call with <requirements-root>/<name> and leaves private.txt alone.
C5_RegistrationByVersion ==
    \A k \in DOMAIN done_snap :
        IF tutor_version[1] < 17
        THEN /\ Cardinality(EventsOf("echo", k)) = 1
             /\ EventsOf("mounts", k) = {}
             /\ done_snap[k].mounts = PrevMounts(k)
             /\ done_snap[k].txt.exists
             /\ IF PrevTxt(k).exists
                THEN EventsOf("open", k) = {}
                ELSE /\ Cardinality(EventsOf("open", k)) = 1
                     /\ PrevTxt(k).lines = << >>
                     /\ \A o \in EventsOf("open", k) :
                            trace[o].ok /\ \A e \in EventsOf("echo", k) : o < e
             /\ \A e \in EventsOf("echo", k) :
                    /\ trace[e].argv = << <<"echo">>, ExpectedLine(k), <<">>">>, ExpectedTxtPath >>
                    /\ done_snap[k].txt.lines =
                           IF trace[e].ok THEN Append(PrevTxt(k).lines, ExpectedLine(k))
                           ELSE PrevTxt(k).lines
        ELSE /\ Cardinality(EventsOf("mounts", k)) = 1
             /\ \A m \in EventsOf("mounts", k) :
                    trace[m].argv = << <<"tutor">>, <<"mounts">>, <<"add">>, ExpectedPath(k) >>
             /\ EventsOf("echo", k) = {}
             /\ EventsOf("open", k) = {}
             /\ done_snap[k].txt = PrevTxt(k)
             /\ done_snap[k].mounts = PrevMounts(k) \cup {ExpectedPath(k)}

C5_Witness ==
    /\ tutor_version[1] < 17
    /\ Len(done_snap) = 2
    /\ ~run_start.txt.exists
    /\ Len(private_txt.lines) = 2

CountLines(line) ==
    Cardinality({k \in DOMAIN private_txt.lines : private_txt.lines[k] = line})

DistinctNames ==
    \A m, n \in DOMAIN packages :
        m # n => packages[m].val.fields["name"] # packages[n].val.fields["name"]

\* C6 as stated: on the legacy path, after any number of successful runs over
\* the same configuration, private.txt lists no package more than once.
C6_NoPackageListedTwice ==
    (pc = "done" /\ tutor_version[1] < 17 /\ DistinctNames) =>
        \A k \in DOMAIN packages : CountLines(ExpectedLine(k)) <= 1

\* C7: two runs in succession over an unchanged descriptor and an unchanged
\* remote end in the same contents of every package directory, and each run
\* executes the clone of every descriptor.
C7_SecondRunSameContents ==
    hist.count >= 2 =>
        /\ \A k \in DOMAIN packages :
               hist.last[packages[k].val.fields["name"]] = hist.prev[packages[k].val.fields["name"]]
        /\ hist.clones = Len(packages)
        /\ hist.prev_clones = Len(packages)

C7_Witness ==
    /\ pc = "done"
    /\ hist.count = 2
    /\ Len(packages) >= 2
    /\ \E k \in DOMAIN packages : isdir(hist.last[packages[k].val.fields["name"]])

\* Descriptors whose iteration has gone past the clone call.
PastClone ==
    {k \in DOMAIN packages :
        \/ k <= Len(done_snap)
        \/ k = i /\ pc = "register"
        \/ /\ k = i
           /\ pc = "aborted"
           /\ trace # << >>
           /\ trace[Len(trace)].pkg = k
           /\ trace[Len(trace)].step \in {"clone", "open", "mounts"}}

\* C8: every valid descriptor the run takes to its clone step gets exactly
\* one clone invocation, with that descriptor's version as the ref, its repo
\* as the source and <root>/env/build/openedx/requirements/<name> as the
\* destination; there is no other clone invocation.
C8_OneCloneEach ==
    /\ \A e \in Events("clone") :
           /\ trace[e].pkg \in DOMAIN packages
           /\ packages[trace[e].pkg] \in Range(settings)
           /\ trace[e].argv =
                  << <<"git">>, <<"clone">>, <<"-b">>,
                     <<packages[trace[e].pkg].val.fields["version"]>>,
                     <<packages[trace[e].pkg].val.fields["repo"]>>,
                     ExpectedPath(trace[e].pkg) >>
    /\ \A k \in DOMAIN packages :
           Cardinality(EventsOf("clone", k)) = IF k \in PastClone THEN 1 ELSE 0

C8_Witness ==
    /\ pc = "done"
    /\ Len(packages) = 2
    /\ Len(settings) = 3
    /\ Cardinality(Events("clone")) = 2
    /\ packages[1].val.fields["repo"] # packages[2].val.fields["repo"]

Rank(step) ==
    CASE step = "makedirs" -> 0
      [] step = "validate" -> 1
      [] step = "rm" -> 2
      [] step = "clone" -> 3
      [] step = "open" -> 4
      [] OTHER -> 5

Registered(e) ==
    \/ trace[e].step = "echo"
    \/ trace[e].step = "mounts" /\ trace[e].ok

Position(entry) == CHOOSE m \in DOMAIN settings : settings[m] = entry

\* C9: descriptors are processed one at a time in the insertion order of the
\* mapping; the steps of a descriptor run in the order validate, remove,
\* clone, register; no step of a descriptor starts before the registration
\* of the one before it has completed; the requirements root exists before
\* the first step.
C9_SequentialOrder ==
    /\ \A a \in 1..(Len(packages) - 1) :
           Position(packages[a]) < Position(packages[a + 1])
    /\ \A p \in 1..(Len(trace) - 1) :
           LET ev == trace[p]
               nx == trace[p + 1]
           IN  \/ /\ nx.pkg = ev.pkg
                  /\ Rank(ev.step) < Rank(nx.step)
                  /\ ev.ok
                  /\ Rank(nx.step) >= 4 => Rank(ev.step) >= 3
               \/ /\ nx.pkg = ev.pkg + 1
                  /\ nx.step = "validate"
                  /\ (ev.step = "makedirs" /\ ev.ok) \/ Registered(p)
    /\ trace # << >> =>
           \/ trace[1].step = "makedirs"
           \/ trace[1].step = "validate" /\ trace[1].pkg = 1
    /\ pc \in {"validate", "rm", "clone", "register"} => root = "dir"
    /\ (trace # << >> /\ trace[Len(trace)].pkg >= 1) => root = "dir"

C9_Witness ==
    /\ Len(trace) >= 1
    /\ trace[1].step = "makedirs"
    /\ \E q \in Events("rm") : trace[q].pkg = 3
    /\ pc = "register"

\* Descriptors the run has validated.
Processed == {k \in DOMAIN packages : \E v \in EventsOf("validate", k) : trace[v].ok}
NameOf(k) == packages[k].val.fields["name"]
Named == {k \in DOMAIN packages : "name" \in DOMAIN packages[k].val.fields}

RegistrationsKept(k) ==
    /\ IsPrefix(done_snap[k].txt.lines, private_txt.lines)
    /\ done_snap[k].txt.exists => private_txt.exists
    /\ done_snap[k].mounts \subseteq mounts

\* No step ran for a descriptor after the one the run stopped at, and the
\* destinations only such descriptors name are as they were at the start.
LaterUntouched ==
    /\ \A e \in DOMAIN trace : trace[e].pkg <= i
    /\ \A k \in Named \ Processed :
           (\A l \in Processed : NameOf(l) # NameOf(k)) =>
               dirs[NameOf(k)] = run_start.dirs[NameOf(k)]

\* C10 as stated: when a run aborts at descriptor k, the cloned directories
\* and the registrations of all descriptors before k are as they were when
\* each completed, and what belongs to the descriptors after k is unchanged.
C10_NothingTouched ==
    pc = "aborted" =>
        /\ \A k \in DOMAIN done_snap :
               /\ dirs[NameOf(k)] = done_snap[k].dirs[NameOf(k)]
               /\ RegistrationsKept(k)
        /\ LaterUntouched

\* C10 amended: when a run aborts at descriptor k, nothing is rolled back:
\* the registrations of all descriptors before k are kept, and the cloned
\* directory of a descriptor before k is as it was when that descriptor
\* completed unless a later descriptor processed by the run has the same
\* name (its removal and clone act on the same directory); nothing is done
\* for the descriptors after k.
C10_NoRollback ==
    pc = "aborted" =>
        /\ \A k \in DOMAIN done_snap :
               /\ (\A l \in Processed : l > k => NameOf(l) # NameOf(k)) =>
                      dirs[NameOf(k)] = done_snap[k].dirs[NameOf(k)]
               /\ RegistrationsKept(k)
        /\ LaterUntouched

C10_Witness ==
    /\ pc = "aborted"
    /\ error = "command"
    /\ Len(done_snap) = 1
    /\ i = 2
    /\ Len(packages) = 3
    /\ isdir(dirs[NameOf(1)])
    /\ NameOf(2) # NameOf(1)

====
